---------------------------- MODULE Spec2Model ----------------------------
(***************************************************************************)
(* Model of the Blindfold client family (JS SDK, CLI, MCP server).         *)
(*                                                                         *)
(* Part 1: client-side detokenization, Blindfold.detokenize of             *)
(* packages/js-sdk/src/client.ts, and the detokenize entry points of the   *)
(* CLI and of the MCP server.                                              *)
(*                                                                         *)
(* Part 2: the request executor of the SDK, Blindfold.request and          *)
(* Blindfold.retryWait: one logical call as a sequence of fetch attempts   *)
(* and backoff waits.                                                      *)
(*                                                                         *)
(* Strings are sequences of one-character strings (UTF-16 code units).     *)
(* The ECMAScript operations the method relies on are modelled by what     *)
(* they do: the RegExp source built from a token is compiled to atoms and  *)
(* matched atom by atom, String.prototype.replace expands the $ patterns   *)
(* of its replacement string, Array.prototype.sort is a stable sort.       *)
(***************************************************************************)
EXTENDS Integers, Sequences, FiniteSets, TLC

VARIABLES
    text,        \* argument text of the detokenize call
    mapping,     \* argument mapping: <<[token, value], ...>> in key order
    client,      \* fields of the Blindfold instance
    fetchCalls,  \* requests handed to fetch so far: <<[surface, method, url, apiKey]>>
    calls,       \* completed detokenize calls: <<[surface, outcome, result, ...]>>
    req,         \* the logical call of Blindfold.request in progress
    req2         \* a second logical call on the same client, concurrent with it

vars == <<text, mapping, client, fetchCalls, calls, req, req2>>

---------------------------------------------------------------------------
(* Bounds of the model *)

MaxTextLen == 3

MaxTokenLen == 2

MaxValueLen == 2

MaxCalls == 2

MaxEntries == 2

MaxRetriesBound == 2

---------------------------------------------------------------------------
(* Sequences *)

RECURSIVE SeqsUpTo(_, _)
\* All sequences over S of length 0..n.
SeqsUpTo(S, n) ==
    IF n = 0 THEN {<<>>}
    ELSE LET shorter == SeqsUpTo(S, n - 1)
         IN  shorter \cup {Append(s, c) : s \in {t \in shorter : Len(t) = n - 1}, c \in S}

RECURSIVE Zeros(_)
Zeros(n) == IF n = 0 THEN <<>> ELSE <<0>> \o Zeros(n - 1)

\* s[from..to] with an empty result when from > to.
Slice(s, from, to) == IF from > to THEN <<>> ELSE SubSeq(s, from, to)

\* 1-based start positions at which tok occurs in s as a substring.
Occurrences(tok, s) ==
    {i \in 1..(Len(s) - Len(tok) + 1) : Slice(s, i, i + Len(tok) - 1) = tok}

IsSubstring(tok, s) == Occurrences(tok, s) # {}

---------------------------------------------------------------------------
(* new RegExp(token.replace(/[.*+?^${}()|[\]\\]/g, '\\$&'), 'g') *)

\* The character class of the escaping regex, client.ts:209.
MetaChars == {".", "*", "+", "?", "^", "$", "{", "}", "(", ")", "|", "[", "]", "\\"}

\* Mutant: the token is used as the pattern source without escaping.
EscapeNone(token) == token

RECURSIVE EscapeWithoutDot(_)
\* Mutant: the dot is missing from the character class.
EscapeWithoutDot(token) ==
    IF token = <<>> THEN <<>>
    ELSE (IF Head(token) \in MetaChars \ {"."} THEN <<"\\", Head(token)>> ELSE <<Head(token)>>)
         \o EscapeWithoutDot(Tail(token))

RECURSIVE EscapeRegExp(_)
\* token.replace(/[.*+?^${}()|[\]\\]/g, '\\$&'): a backslash before each
\* metacharacter ('\\$&' is backslash followed by the match).
EscapeRegExp(token) ==
    IF token = <<>> THEN <<>>
    ELSE (IF Head(token) \in MetaChars THEN <<"\\", Head(token)>> ELSE <<Head(token)>>)
         \o EscapeRegExp(Tail(token))

RECURSIVE CompileRegExp(_)
\* The pattern source as a sequence of atoms.  A backslash and c is the
\* literal c, an unescaped . matches any character, unescaped ^ and $ are
\* the zero-width assertions start and end of input; any other character is
\* itself.  (The remaining metacharacters are quantifiers and brackets; the
\* model's alphabet has none of them.)
CompileRegExp(src) ==
    IF src = <<>> THEN <<>>
    ELSE IF Head(src) = "\\" /\ Len(src) >= 2
         THEN <<[t |-> "lit", c |-> src[2]]>> \o CompileRegExp(Tail(Tail(src)))
    ELSE IF Head(src) = "." THEN <<[t |-> "any", c |-> "."]>> \o CompileRegExp(Tail(src))
    ELSE IF Head(src) = "$" THEN <<[t |-> "eol", c |-> "$"]>> \o CompileRegExp(Tail(src))
    ELSE IF Head(src) = "^" THEN <<[t |-> "bol", c |-> "^"]>> \o CompileRegExp(Tail(src))
    ELSE <<[t |-> "lit", c |-> Head(src)]>> \o CompileRegExp(Tail(src))

RECURSIVE MatchLen(_, _, _)
\* Number of characters the atoms consume when matched at position i of s
\* (1-based, i in 1..Len(s)+1), or -1 when they do not match there.
MatchLen(atoms, s, i) ==
    IF atoms = <<>> THEN 0
    ELSE LET a == Head(atoms)
         IN  IF a.t = "eol"
             THEN (IF i = Len(s) + 1 THEN MatchLen(Tail(atoms), s, i) ELSE -1)
             ELSE IF a.t = "bol"
             THEN (IF i = 1 THEN MatchLen(Tail(atoms), s, i) ELSE -1)
             ELSE IF i > Len(s) THEN -1
             ELSE IF a.t = "lit" /\ s[i] # a.c THEN -1
             ELSE LET rest == MatchLen(Tail(atoms), s, i + 1)
                  IN  IF rest = -1 THEN -1 ELSE rest + 1

RECURSIVE ScanFrom(_, _, _)
\* The matches of a global regex, left to right from lastIndex: the leftmost
\* match at or after lastIndex, then on from its end (from the next position
\* after an empty match).
ScanFrom(atoms, s, lastIndex) ==
    LET starts == {i \in lastIndex..(Len(s) + 1) : MatchLen(atoms, s, i) >= 0}
    IN  IF starts = {} THEN <<>>
        ELSE LET p == CHOOSE i \in starts : \A j \in starts : i <= j
                 n == MatchLen(atoms, s, p)
             IN  <<[pos |-> p, len |-> n]>>
                 \o ScanFrom(atoms, s, IF n = 0 THEN p + 1 ELSE p + n)

\* result.match(regex): the matches, <<>> standing for null.
StringMatch(s, atoms) == ScanFrom(atoms, s, 1)

---------------------------------------------------------------------------
(* result.replace(regex, originalValue) *)

\* Mutant: the replacement string is inserted as it is.
GetSubstitutionLiteral(matched, str, position, replacement) == replacement

\* The grave accent (U+0060), written by name.
Backtick == "GRAVE"

RECURSIVE GetSubstitution(_, _, _, _)
\* ECMAScript GetSubstitution for a regex without capture groups: $$ is a
\* dollar, $& the match, $ and a grave accent the text before the match,
\* $ and an apostrophe the text after it; a $ before anything else (digits
\* included, there being no groups) stays a dollar.
GetSubstitution(matched, str, position, replacement) ==
    IF replacement = <<>> THEN <<>>
    ELSE IF Head(replacement) = "$" /\ Len(replacement) >= 2
              /\ replacement[2] \in {"$", "&", Backtick, "'"}
         THEN (CASE replacement[2] = "$" -> <<"$">>
                 [] replacement[2] = "&" -> matched
                 [] replacement[2] = Backtick -> Slice(str, 1, position - 1)
                 [] replacement[2] = "'" -> Slice(str, position + Len(matched), Len(str)))
              \o GetSubstitution(matched, str, position, Tail(Tail(replacement)))
    ELSE <<Head(replacement)>> \o GetSubstitution(matched, str, position, Tail(replacement))

\* The k-th inserted text of a replace call.
Inserted(s, matches, k, value) ==
    GetSubstitution(Slice(s, matches[k].pos, matches[k].pos + matches[k].len - 1),
                    s, matches[k].pos, value)

RECURSIVE Splice(_, _, _, _, _)
\* base with the k-th, (k+1)-th, ... matched ranges replaced by ins[k], ...,
\* copying from position next on.
Splice(base, matches, ins, k, next) ==
    IF k > Len(matches) THEN Slice(base, next, Len(base))
    ELSE Slice(base, next, matches[k].pos - 1) \o ins[k]
         \o Splice(base, matches, ins, k + 1, matches[k].pos + matches[k].len)

\* result.replace(regex, value) for the matches of the global regex.
StringReplace(s, matches, value) ==
    Splice(s, matches, [k \in 1..Len(matches) |-> Inserted(s, matches, k, value)], 1, 1)


---------------------------------------------------------------------------
(* Blindfold.detokenize, client.ts:200-222 *)

\* Object.keys(mapping): the tokens in the object's key order.  (No token of
\* the model is an array index, so key order is insertion order.)
ObjectKeys(m) == [i \in 1..Len(m) |-> m[i].token]

\* mapping[token]
Lookup(m, token) == (CHOOSE i \in 1..Len(m) : m[i].token = token)

RECURSIVE LongestLen(_)
LongestLen(keys) ==
    IF keys = <<>> THEN 0
    ELSE LET r == LongestLen(Tail(keys))
         IN  IF Len(Head(keys)) > r THEN Len(Head(keys)) ELSE r

RECURSIVE ByLengthFrom(_, _, _)
\* The keys of length n, then those of length n + step, ... (each group in
\* the order of keys), for n within 0..LongestLen(keys).
ByLengthFrom(keys, n, step) ==
    IF n < 0 \/ n > LongestLen(keys) THEN <<>>
    ELSE SelectSeq(keys, LAMBDA k : Len(k) = n) \o ByLengthFrom(keys, n + step, step)

\* Mutant: shortest first, the comparator's operands swapped.
SortShortestFirst(keys) == ByLengthFrom(keys, 0, 1)

\* Mutant: no sort, the tokens stay in key order.
SortNone(keys) == keys

\* keys.sort((a, b) => b.length - a.length): a stable sort, longest first.
SortTokens(keys) == ByLengthFrom(keys, LongestLen(keys), -1)

\* Mutant: the loop adds one per token that matched.
CountTokens(matches) == 1

\* replacements += matches.length
CountMatches(matches) == Len(matches)

\* One iteration of the for loop over sortedTokens.  st.text and
\* st.replacements are the locals result and replacements.  st.origin
\* and st.log are history: origin[i] is the position in the input text that
\* character i of result was copied from, 0 for an inserted character; the
\* log keeps, per token, what was matched and what was inserted.
DetokenizeStep(st, token, value) ==
    LET regex   == CompileRegExp(EscapeRegExp(token))
        matches == StringMatch(st.text, regex)
        ins     == [k \in 1..Len(matches) |-> Inserted(st.text, matches, k, value)]
        entry   == [token   |-> token,
                    value   |-> value,
                    matched |-> [k \in 1..Len(matches) |->
                                    Slice(st.text, matches[k].pos,
                                          matches[k].pos + matches[k].len - 1)],
                    from    |-> [k \in 1..Len(matches) |->
                                    Slice(st.origin, matches[k].pos,
                                          matches[k].pos + matches[k].len - 1)],
                    ins     |-> ins]
    IN  IF matches = <<>>
        THEN [st EXCEPT !.log = Append(@, entry)]
        ELSE [text         |-> StringReplace(st.text, matches, value),
              replacements |-> st.replacements + CountMatches(matches),
              origin       |-> Splice(st.origin, matches,
                                      [k \in 1..Len(matches) |-> Zeros(Len(ins[k]))], 1, 1),
              log          |-> Append(st.log, entry)]

RECURSIVE DetokenizeLoop(_, _, _, _)
DetokenizeLoop(st, sortedTokens, k, m) ==
    IF k > Len(sortedTokens) THEN st
    ELSE DetokenizeLoop(DetokenizeStep(st, sortedTokens[k], m[Lookup(m, sortedTokens[k])].value),
                        sortedTokens, k + 1, m)

\* The whole call, with its history.
DetokenizeRun(t, m) ==
    DetokenizeLoop([text |-> t, replacements |-> 0,
                    origin |-> [i \in 1..Len(t) |-> i], log |-> <<>>],
                   SortTokens(ObjectKeys(m)), 1, m)

\* The value returned: { text: result, replacements_made: replacements }.
Returned(run) == [text |-> run.text, replacements_made |-> run.replacements]

detokenize(t, m) == Returned(DetokenizeRun(t, m))

\* Mutant: the sort is applied to the mapping's own entries.
MappingSortedInPlace(m) ==
    LET sorted == SortTokens(ObjectKeys(m))
    IN  [i \in 1..Len(m) |-> m[Lookup(m, sorted[i])]]

\* The mapping after the call.  Object.keys returns a fresh array, which is
\* what sort reorders; the mapping is only read (client.ts:205, 208).
MappingAfterDetokenize(m) == m

\* A call record without a local run (the CLI and the MCP server).
NoRun == [text |-> <<>>, replacements |-> 0, origin |-> <<>>, log |-> <<>>]

NoResult == [text |-> <<>>, replacements_made |-> 0]

---------------------------------------------------------------------------
(* The client and the transport *)

DEFAULT_BASE_URL == "https://api.blindfold.dev/api/public/v1"

Undefined == "undefined"

\* A value that is a number or is not one, as a constructor option or a
\* field of a JSON body is: not given, a number, or a string.
NotGiven == [type |-> "undefined", value |-> 0]

NumberOf(n) == [type |-> "number", value |-> n]

StringOf(n) == [type |-> "string", value |-> n]

\* Mutant: the default of maxRetries is taken with || in place of ??.
NewBlindfoldOr(config) ==
    [apiKey     |-> config.apiKey,
     baseUrl    |-> IF config.baseUrl \in {Undefined, ""} THEN DEFAULT_BASE_URL
                    ELSE config.baseUrl,
     userId     |-> config.userId,
     maxRetries |-> IF config.maxRetries.type = "undefined" \/ config.maxRetries.value = 0
                    THEN 2 ELSE config.maxRetries.value,
     retryDelay |-> IF config.retryDelay.type = "undefined" THEN 500
                    ELSE config.retryDelay.value]

\* Blindfold constructor, client.ts:43-49.  retryDelay is kept in
\* milliseconds (the default 0.5 s is 500).
NewBlindfold(config) ==
    [apiKey     |-> config.apiKey,
     baseUrl    |-> IF config.baseUrl \in {Undefined, ""} THEN DEFAULT_BASE_URL
                    ELSE config.baseUrl,
     userId     |-> config.userId,
     maxRetries |-> IF config.maxRetries.type = "undefined" THEN 2
                    ELSE config.maxRetries.value,
     retryDelay |-> IF config.retryDelay.type = "undefined" THEN 500
                    ELSE config.retryDelay.value]

\* The body of a response: text is what response.text() gives, parses is
\* FALSE when the text is not JSON (response.json() rejects, JSON.parse
\* throws), detail, message and retry_after are the fields of the parsed
\* object, "" and NotGiven standing for a field that is absent.
HttpBody(raw, parses, detail, message, retryAfter) ==
    [text |-> raw, parses |-> parses, detail |-> detail, message |-> message,
     retry_after |-> retryAfter]

\* A JSON body with at most a detail and a retry_after, or a body that is
\* not JSON.
JsonBody(parses, detail, retryAfter) ==
    HttpBody(IF parses THEN "{json}" ELSE "<html>", parses, detail, "", retryAfter)

NotJson == JsonBody(FALSE, "", NotGiven)

NoError == [cls |-> "none", message |-> ""]

\* error.message.includes('fetch')
IncludesFetch(message) == message \in {"fetch failed", "Failed to fetch"}

\* The ways the promise of fetch rejects: the TypeError of Node and of
\* Chromium, whose message names fetch, the TypeError of WebKit, whose
\* message does not, and the DOMException of an aborted or timed out request.
FetchRejections ==
    {[cls |-> "TypeError", message |-> "fetch failed"],
     [cls |-> "TypeError", message |-> "Load failed"],
     [cls |-> "DOMException", message |-> "The operation was aborted"]}

\* A response of fetch; payload is the value a 2xx body decodes to where a
\* caller reads it.
HttpResponse(status, body) ==
    [kind |-> "http", err |-> NoError, status |-> status, body |-> body,
     payload |-> NoResult]

Rejection(err) ==
    [kind |-> "reject", err |-> err, status |-> 0, body |-> NotJson, payload |-> NoResult]

\* What the server may answer to POST /detokenize with a 2xx status.  The
\* server is outside the repository: any body is possible, two are drawn.
ServerBodies(t, m) == {detokenize(t, m), [text |-> t, replacements_made |-> 0]}

\* Outcomes of one fetch call: the promise rejects, or a response arrives.
Responses(t, m) ==
    {Rejection([cls |-> "TypeError", message |-> "fetch failed"])}
    \cup {HttpResponse(st, JsonBody(TRUE, "", NotGiven)) : st \in {401, 500}}
    \cup {[HttpResponse(200, JsonBody(TRUE, "", NotGiven)) EXCEPT !.payload = b] :
             b \in ServerBodies(t, m)}

\* response.ok
Ok(status) == status >= 200 /\ status <= 299

\* detail = json.detail || json.message || text, the text itself when it
\* is not JSON, cli/src/lib/api.ts:31-38.
ErrorDetail(body) ==
    IF ~body.parses THEN body.text
    ELSE IF body.detail # "" THEN body.detail
    ELSE IF body.message # "" THEN body.message
    ELSE body.text

\* apiRequest of the CLI, cli/src/lib/api.ts:6-46: one fetch, then the
\* outcome classified.  A rejection that is not an Error object has no
\* message to take; response.json() of a 2xx body that is not JSON rejects
\* with the SyntaxError of the parser.
CliApiRequest(apiKey, baseUrl, endpoint, resp) ==
    [fetches |-> <<[surface |-> "cli", method |-> "POST",
                    url |-> <<baseUrl, "/api/public/v1", endpoint>>, apiKey |-> apiKey]>>,
     outcome |-> IF resp.kind = "reject" THEN "NetworkError"
                 ELSE IF resp.status = 401 \/ resp.status = 403 THEN "AuthenticationError"
                 ELSE IF ~Ok(resp.status) THEN "APIError"
                 ELSE IF ~resp.body.parses THEN "SyntaxError"
                 ELSE "ok",
     status  |-> resp.status,
     message |-> IF resp.kind = "reject"
                 THEN (IF resp.err.cls = "string" THEN "Network request failed."
                       ELSE resp.err.message)
                 ELSE IF resp.status = 401 \/ resp.status = 403
                 THEN "Authentication failed. Check your API key."
                 ELSE IF ~Ok(resp.status) THEN ErrorDetail(resp.body)
                 ELSE IF ~resp.body.parses THEN "Unexpected token"
                 ELSE "",
     result  |-> IF resp.kind = "http" /\ Ok(resp.status) /\ resp.body.parses
                 THEN resp.payload ELSE NoResult]

\* apiRequest of the MCP server (api.ts of the server): one fetch; a
\* rejection propagates as it is, a non-2xx status throws a plain Error,
\* and response.json() of a 2xx body that is not JSON rejects with the
\* SyntaxError of the parser.
McpApiRequest(apiKey, baseUrl, endpoint, resp) ==
    [fetches |-> <<[surface |-> "mcp", method |-> "POST",
                    url |-> <<baseUrl, "/api/public/v1", endpoint>>, apiKey |-> apiKey]>>,
     outcome |-> IF resp.kind = "reject" THEN resp.err.cls
                 ELSE IF ~Ok(resp.status) THEN "Error"
                 ELSE IF ~resp.body.parses THEN "SyntaxError"
                 ELSE "ok",
     status  |-> resp.status,
     message |-> IF resp.kind = "reject" THEN resp.err.message
                 ELSE IF ~Ok(resp.status) THEN resp.body.text
                 ELSE IF ~resp.body.parses THEN "Unexpected token"
                 ELSE "",
     result  |-> IF resp.kind = "http" /\ Ok(resp.status) /\ resp.body.parses
                 THEN resp.payload ELSE NoResult]

---------------------------------------------------------------------------
(* Configuration of the CLI, cli/src/lib/config.ts:122-154 *)

REGION_URLS == [eu |-> "https://eu-api.blindfold.dev", us |-> "https://us-api.blindfold.dev"]

\* A string option, environment variable or config field is Undefined when
\* absent; a value is truthy when it is neither absent nor empty.
Truthy(v) == v \notin {Undefined, ""}

\* a || b || c: the first truthy operand, else the last one.
FirstTruthy(a, b, c) == IF Truthy(a) THEN a ELSE IF Truthy(b) THEN b ELSE c

\* Mutant: the environment variable is preferred to the flag.
ResolveApiKeyEnvFirst(flagValue, envKey, configKey) ==
    LET key == FirstTruthy(envKey, flagValue, configKey)
    IN  IF ~Truthy(key) THEN [outcome |-> "ConfigError", value |-> Undefined]
        ELSE [outcome |-> "ok", value |-> key]

\* resolveApiKey(flagValue): envKey is process.env.BLINDFOLD_API_KEY and
\* configKey is loadConfig().apiKey (absent when the file is missing or is
\* not JSON, loadConfig then returning {}).
ResolveApiKey(flagValue, envKey, configKey) ==
    LET key == FirstTruthy(flagValue, envKey, configKey)
    IN  IF ~Truthy(key) THEN [outcome |-> "ConfigError", value |-> Undefined]
        ELSE [outcome |-> "ok", value |-> key]

\* resolveRegion(flagValue)
ResolveRegion(flagValue, envRegion, configRegion) ==
    FirstTruthy(flagValue, envRegion, configRegion)

\* region.toLowerCase(), on the regions drawn.
ToLowerCase(s) ==
    CASE s = "EU" -> "eu"
      [] s = "Us" -> "us"
      [] OTHER    -> s

\* REGION_URLS[key]: the own properties eu and us, then the properties every
\* object inherits (constructor, __proto__), whose values are not strings;
\* Undefined for any other key.
RegionUrl(key) ==
    IF key \in DOMAIN REGION_URLS THEN REGION_URLS[key]
    ELSE IF key \in {"constructor", "__proto__"} THEN "[object]"
    ELSE Undefined

\* resolveBaseUrl(flagValue, regionFlag) with the environment variables
\* BLINDFOLD_BASE_URL and BLINDFOLD_REGION and the fields of loadConfig().
ResolveBaseUrl(flagValue, envUrl, configUrl, regionFlag, envRegion, configRegion) ==
    IF Truthy(flagValue) THEN [outcome |-> "ok", value |-> flagValue]
    ELSE IF Truthy(envUrl) THEN [outcome |-> "ok", value |-> envUrl]
    ELSE IF Truthy(configUrl) THEN [outcome |-> "ok", value |-> configUrl]
    ELSE LET region == ResolveRegion(regionFlag, envRegion, configRegion)
         IN  IF Truthy(region)
             THEN (IF ~Truthy(RegionUrl(ToLowerCase(region)))
                   THEN [outcome |-> "ConfigError", value |-> Undefined]
                   ELSE [outcome |-> "ok", value |-> RegionUrl(ToLowerCase(region))])
             ELSE [outcome |-> "ok", value |-> "https://api.blindfold.dev"]

---------------------------------------------------------------------------
(* The detokenize command of the CLI, commands/detokenize.ts:18-48 *)

\* The environment of one CLI run: the resolved API key ("" when neither
\* flag, environment nor config file gives one), the explicit base URL
\* ("" when none is set), the region setting, whether a text was given, and
\* how the mapping was given.
CliEnvs ==
    [apiKey  : {"", "cli-key"},
     baseUrl : {"", "http://localhost:8000"},
     region  : {"", "eu", "mars"},
     text    : {"arg", "none"},
     mapping : {"json", "bad-json", "file", "bad-file", "none"}]

\* Mutant: the command detokenizes locally, as the SDK does.
CliDetokenizeLocal(env, t, m, resp) ==
    [fetches |-> <<>>, outcome |-> "ok", status |-> 0, result |-> detokenize(t, m)]

\* The action handler: resolveApiKey, resolveBaseUrl (an explicit base URL
\* first, then the region), resolveText, the mapping option, then
\* api('/detokenize', { text, mapping }).
CliDetokenizeCommand(env, t, m, resp) ==
    LET failed(kind) == [fetches |-> <<>>, outcome |-> kind, status |-> 0, result |-> NoResult]
        badRegion    == env.baseUrl = "" /\ env.region # "" /\ env.region \notin DOMAIN REGION_URLS
        baseUrl      == IF env.baseUrl # "" THEN env.baseUrl
                        ELSE IF env.region # "" THEN REGION_URLS[env.region]
                        ELSE "https://api.blindfold.dev"
    IN  IF env.apiKey = "" THEN failed("ConfigError")
        ELSE IF badRegion THEN failed("ConfigError")
        ELSE IF env.text = "none" THEN failed("InputError")
        ELSE IF env.mapping \in {"bad-json", "bad-file", "none"} THEN failed("InputError")
        ELSE CliApiRequest(env.apiKey, baseUrl, "/detokenize", resp)

\* resolveText(positionalArg, { file }) of lib/input.ts, by where the text
\* is: a readable file, a file that cannot be read, an argument, an argument
\* of blanks only with a terminal on stdin, piped stdin, empty piped stdin,
\* or nowhere.
ResolveText(input) ==
    IF input \in {"file", "arg", "stdin"} THEN "ok" ELSE "InputError"

\* resolveTexts(positionalArg, { file }): the argument is not read in batch
\* mode, and a file without a non-blank line is refused.
ResolveTexts(input) ==
    IF input \in {"file", "stdin"} THEN "ok" ELSE "InputError"

\* The environment of a run of the tokenize command: the --api-key flag and
\* BLINDFOLD_API_KEY, the --base-url flag and BLINDFOLD_REGION, --batch, and
\* where the text is.
CliTokenizeEnvs ==
    [apiKeyFlag : {Undefined, "flag-key"},
     envKey     : {Undefined, "env-key"},
     baseUrl    : {Undefined, "http://localhost:8000"},
     envRegion  : {Undefined, "eu", "ap"},
     batch      : BOOLEAN,
     input      : {"file", "bad-file", "empty-file", "arg", "blank-arg", "stdin",
                   "empty-stdin", "none"}]

\* Mutant: the request is sent before the text is resolved.
CliTokenizeRequestFirst(env, resp) ==
    LET key  == ResolveApiKey(env.apiKeyFlag, env.envKey, Undefined)
        url  == ResolveBaseUrl(env.baseUrl, Undefined, Undefined, Undefined, env.envRegion, Undefined)
        read == IF env.batch THEN ResolveTexts(env.input) ELSE ResolveText(env.input)
        sent == CliApiRequest(key.value, url.value, "/tokenize", resp)
    IN  IF key.outcome = "ConfigError" \/ url.outcome = "ConfigError"
        THEN [fetches |-> <<>>, outcome |-> "ConfigError", status |-> 0, result |-> NoResult]
        ELSE IF read = "InputError"
        THEN [fetches |-> sent.fetches, outcome |-> "InputError", status |-> 0, result |-> NoResult]
        ELSE [fetches |-> sent.fetches, outcome |-> sent.outcome, status |-> sent.status,
              result |-> sent.result]

\* The action handler of tokenize, commands/tokenize.ts:16-35: resolveApiKey,
\* resolveBaseUrl (no region flag is passed), resolveTexts or resolveText,
\* then one api('/tokenize', body).
CliTokenizeCommand(env, resp) ==
    LET failed(kind) == [fetches |-> <<>>, outcome |-> kind, status |-> 0, result |-> NoResult]
        key  == ResolveApiKey(env.apiKeyFlag, env.envKey, Undefined)
        url  == ResolveBaseUrl(env.baseUrl, Undefined, Undefined, Undefined, env.envRegion, Undefined)
        read == IF env.batch THEN ResolveTexts(env.input) ELSE ResolveText(env.input)
        sent == CliApiRequest(key.value, url.value, "/tokenize", resp)
    IN  IF key.outcome = "ConfigError" THEN failed("ConfigError")
        ELSE IF url.outcome = "ConfigError" THEN failed("ConfigError")
        ELSE IF read = "InputError" THEN failed("InputError")
        ELSE [fetches |-> sent.fetches, outcome |-> sent.outcome, status |-> sent.status,
              result |-> sent.result]

\* The blindfold_detokenize tool of the MCP server, server.ts: one
\* apiRequest('/detokenize', { text, mapping }), its result returned.
McpDetokenizeTool(t, m, resp) ==
    McpApiRequest("mcp-key", "https://api.blindfold.dev", "/detokenize", resp)

---------------------------------------------------------------------------
(* Blindfold.request and Blindfold.retryWait, client.ts:23-27 and 51-158 *)

\* Times are in microseconds, so that the jitter of a delay of whole
\* milliseconds is a whole number.

\* Mutant: 400 is taken for a transient status.
RetryableWith400 == {400, 429, 500, 502, 503, 504}

RETRYABLE_STATUS_CODES == {429, 500, 502, 503, 504}

\* The values Math.random() returns, in tenths: some x with 0 <= x < 1.
MathRandom == {0, 9}

RECURSIVE Pow2(_)
\* 2 ** n
Pow2(n) == IF n = 0 THEN 1 ELSE 2 * Pow2(n - 1)

\* The outcomes of one fetch of Blindfold.request.  The server is outside
\* the repository: any status and any body are possible, these are drawn.
FetchOutcomes ==
    {Rejection(e) : e \in FetchRejections}
    \cup {HttpResponse(200, b) : b \in {JsonBody(TRUE, "", NotGiven), NotJson}}
    \cup {HttpResponse(st, JsonBody(TRUE, "Unauthorized", NotGiven)) : st \in {401, 403}}
    \cup {HttpResponse(st, JsonBody(TRUE, "Bad request", NotGiven)) : st \in {304, 400}}
    \cup {HttpResponse(429, JsonBody(TRUE, "Rate limited", ra)) :
             ra \in {NotGiven, NumberOf(0), NumberOf(2), StringOf(2)}}
    \cup {HttpResponse(500, b) : b \in {JsonBody(TRUE, "Internal error", NotGiven), NotJson}}
    \cup {HttpResponse(st, JsonBody(TRUE, "Error", NotGiven)) : st \in {502, 503, 504}}

\* The error classes of errors.ts, as values.
AuthenticationError ==
    [cls |-> "AuthenticationError", statusCode |-> 401, responseBody |-> NotJson,
     message |-> "Authentication failed. Please check your API key."]

APIError(message, statusCode, responseBody) ==
    [cls |-> "APIError", statusCode |-> statusCode, responseBody |-> responseBody,
     message |-> message]

NetworkError(message) ==
    [cls |-> "NetworkError", statusCode |-> 0, responseBody |-> NotJson, message |-> message]

NoThrow == [cls |-> "none", statusCode |-> 0, responseBody |-> NotJson, message |-> ""]

\* Mutant: the hint is taken as milliseconds.
RetryWaitHintMillis(c, attempt, error, random) ==
    IF error.cls = "APIError" /\ error.statusCode = 429
       /\ error.responseBody.parses /\ error.responseBody.retry_after.type = "number"
    THEN error.responseBody.retry_after.value * 1000
    ELSE LET delay == c.retryDelay * Pow2(attempt) * 1000
         IN  delay + (delay * random) \div 100

\* Mutant: the delay grows with 2 * attempt.
RetryWaitLinear(c, attempt, error, random) ==
    IF error.cls = "APIError" /\ error.statusCode = 429
       /\ error.responseBody.parses /\ error.responseBody.retry_after.type = "number"
    THEN error.responseBody.retry_after.value * 1000 * 1000
    ELSE LET delay == c.retryDelay * (2 * attempt) * 1000
         IN  delay + (delay * random) \div 100

\* retryWait(attempt, error), client.ts:51-61, error being NoThrow when the
\* argument is omitted.  c.retryDelay is in milliseconds (retryDelay * 1000
\* of the code), random is Math.random() in tenths, and delay * 0.1 *
\* Math.random() is delay * random / 100.
RetryWait(c, attempt, error, random) ==
    IF error.cls = "APIError" /\ error.statusCode = 429
       /\ error.responseBody.parses /\ error.responseBody.retry_after.type = "number"
    THEN error.responseBody.retry_after.value * 1000 * 1000
    ELSE LET delay == c.retryDelay * Pow2(attempt) * 1000
         IN  delay + (delay * random) \div 100

\* The body of the try block, client.ts:85-114, given how fetch settled:
\* the value returned, or the value thrown.
TryAttempt(resp) ==
    IF resp.kind = "reject"
    THEN [thrown |-> [cls |-> resp.err.cls, statusCode |-> 0, responseBody |-> NotJson,
                      message |-> resp.err.message],
          value |-> NotJson]
    ELSE IF resp.status = 401 \/ resp.status = 403
    THEN [thrown |-> AuthenticationError, value |-> NotJson]
    ELSE IF ~Ok(resp.status)
    THEN [thrown |-> APIError(IF ~resp.body.parses
                                 THEN "API request failed with status: statusText"
                              ELSE IF resp.body.detail # "" THEN resp.body.detail
                              ELSE IF resp.body.message # "" THEN resp.body.message
                              ELSE "API request failed with status",
                              resp.status, resp.body),
          value |-> NotJson]
    ELSE IF ~resp.body.parses
    THEN [thrown |-> [cls |-> "SyntaxError", statusCode |-> 0, responseBody |-> NotJson,
                      message |-> "Unexpected token"],
          value |-> NotJson]
    ELSE [thrown |-> NoThrow, value |-> resp.body]

NoWait == -1

\* Mutant: an authentication error is retried like a retryable API error.
CatchAttemptAuthRetried(c, attempt, error, random) ==
    LET throw(e)   == [next |-> "throw", thrown |-> e, wait |-> NoWait]
        sleep(e)   == [next |-> "sleep", thrown |-> NoThrow,
                       wait |-> RetryWait(c, attempt, e, random)]
        lastError  == NetworkError("Network request failed. Please check your connection and the API URL.")
    IN  IF error.cls = "AuthenticationError"
        THEN (IF attempt < c.maxRetries THEN sleep(error) ELSE throw(error))
        ELSE IF error.cls = "APIError"
        THEN (IF error.statusCode \in RETRYABLE_STATUS_CODES /\ attempt < c.maxRetries
              THEN sleep(error) ELSE throw(error))
        ELSE IF error.cls = "NetworkError"
        THEN (IF attempt < c.maxRetries THEN sleep(NoThrow) ELSE throw(error))
        ELSE IF error.cls = "TypeError" /\ IncludesFetch(error.message)
        THEN (IF attempt < c.maxRetries THEN sleep(NoThrow) ELSE throw(lastError))
        ELSE throw(NetworkError(error.message))

\* The catch block, client.ts:115-154: the error is thrown to the caller,
\* or the call sleeps for wait microseconds and goes on with the next attempt.
CatchAttempt(c, attempt, error, random) ==
    LET throw(e)   == [next |-> "throw", thrown |-> e, wait |-> NoWait]
        sleep(e)   == [next |-> "sleep", thrown |-> NoThrow,
                       wait |-> RetryWait(c, attempt, e, random)]
        lastError  == NetworkError("Network request failed. Please check your connection and the API URL.")
    IN  IF error.cls = "AuthenticationError" THEN throw(error)
        ELSE IF error.cls = "APIError"
        THEN (IF error.statusCode \in RETRYABLE_STATUS_CODES /\ attempt < c.maxRetries
              THEN sleep(error) ELSE throw(error))
        ELSE IF error.cls = "NetworkError"
        THEN (IF attempt < c.maxRetries THEN sleep(NoThrow) ELSE throw(error))
        ELSE IF error.cls = "TypeError" /\ IncludesFetch(error.message)
        THEN (IF attempt < c.maxRetries THEN sleep(NoThrow) ELSE throw(lastError))
        ELSE throw(NetworkError(error.message))

\* One iteration of the loop from the moment fetch settles.
Attempt(c, attempt, resp, random) ==
    LET try == TryAttempt(resp)
    IN  IF try.thrown.cls = "none"
        THEN [next |-> "return", thrown |-> NoThrow, wait |-> NoWait, value |-> try.value]
        ELSE LET caught == CatchAttempt(c, attempt, try.thrown, random)
             IN  [next |-> caught.next, thrown |-> caught.thrown, wait |-> caught.wait,
                  value |-> NotJson]

\* A logical call before it starts; config is the argument the client was
\* constructed with.
IdleRequest(maxRetries, retryDelay) ==
    [pc        |-> "idle",
     call      |-> 1,
     endpoint  |-> "/tokenize",
     config    |-> [maxRetries |-> maxRetries, retryDelay |-> retryDelay],
     attempt   |-> 0,
     log       |-> <<>>,
     thrown    |-> NoThrow,
     value     |-> NotJson,
     cancelled |-> FALSE]

\* The second call, client.detect(text), of the same client.
IdleRequest2(maxRetries, retryDelay) ==
    [IdleRequest(maxRetries, retryDelay) EXCEPT !.call = 2, !.endpoint = "/detect"]

\* Mutant: a retry is sent without the user header.
SdkFetchAnonymousRetry(c, r) ==
    [surface |-> "sdk", call |-> r.call, method |-> "POST",
     url     |-> <<c.baseUrl, r.endpoint>>,
     apiKey  |-> c.apiKey,
     userId  |-> IF c.userId \in {Undefined, ""} \/ r.attempt > 0 THEN Undefined
                 ELSE c.userId,
     body    |-> <<"text", r.endpoint>>]

\* The request handed to fetch, client.ts:71-90: the url and the headers
\* are built once before the loop, from the fields of the client; the body is
\* serialized from the same object at each attempt.  apiKey is the X-API-Key
\* header, userId the X-Blindfold-User-Id header (Undefined: no such header,
\* the field being absent or empty).
SdkFetch(c, r) ==
    [surface |-> "sdk", call |-> r.call, method |-> "POST",
     url     |-> <<c.baseUrl, r.endpoint>>,
     apiKey  |-> c.apiKey,
     userId  |-> IF c.userId \in {Undefined, ""} THEN Undefined ELSE c.userId,
     body    |-> <<"text", r.endpoint>>]

\* request up to its first await: the loop entered with attempt 0 and fetch
\* called, or, the loop not entered, lastError thrown (line 157).
Started(c, r) ==
    IF 0 <= c.maxRetries
    THEN [req     |-> [r EXCEPT !.pc = "inflight", !.attempt = 0],
          fetches |-> <<SdkFetch(c, [r EXCEPT !.attempt = 0])>>]
    ELSE [req     |-> [r EXCEPT !.pc = "thrown", !.thrown = NetworkError("Request failed")],
          fetches |-> <<>>]

\* The rest of an iteration once fetch has settled with resp: up to the
\* return, the throw, or the call of sleep.
SettledWith(c, r, resp, random) ==
    LET out == Attempt(c, r.attempt, resp, random)
    IN  [r EXCEPT !.pc     = CASE out.next = "return" -> "returned"
                               [] out.next = "throw"  -> "thrown"
                               [] out.next = "sleep"  -> "sleeping",
                  !.log    = Append(@, [resp |-> resp, wait |-> out.wait]),
                  !.thrown = out.thrown,
                  !.value  = out.value]

\* After sleep: continue, attempt++, the loop condition, and the next fetch.
Woken(c, r) ==
    IF r.attempt + 1 <= c.maxRetries
    THEN [req     |-> [r EXCEPT !.pc = "inflight", !.attempt = @ + 1],
          fetches |-> <<SdkFetch(c, [r EXCEPT !.attempt = @ + 1])>>]
    ELSE [req     |-> [r EXCEPT !.pc = "thrown", !.attempt = @ + 1,
                                !.thrown = NetworkError("Request failed")],
          fetches |-> <<>>]

---------------------------------------------------------------------------
(* Inputs *)

RECURSIVE MappingsUpTo(_, _, _)
\* The mappings of at most n entries, tokens distinct, in every key order.
MappingsUpTo(Tokens, Values, n) ==
    IF n = 0 THEN {<<>>}
    ELSE LET shorter == MappingsUpTo(Tokens, Values, n - 1)
         IN  shorter \cup
             UNION {{Append(m, [token |-> t, value |-> v]) :
                        t \in Tokens \ {m[i].token : i \in 1..Len(m)}, v \in Values} :
                    m \in {x \in shorter : Len(x) = n - 1}}

InitWith(Texts, Maps) ==
    /\ text \in Texts
    /\ mapping \in Maps
    /\ client = NewBlindfold([apiKey |-> "test-key", baseUrl |-> Undefined,
                               userId |-> Undefined, maxRetries |-> NotGiven,
                               retryDelay |-> NotGiven])
    /\ fetchCalls = <<>>
    /\ calls = <<>>
    /\ req = IdleRequest(NotGiven, NotGiven)
    /\ req2 = IdleRequest2(NotGiven, NotGiven)

---------------------------------------------------------------------------
(* Actions *)

\* client.detokenize(text, mapping)
SdkDetokenize ==
    /\ Len(calls) < MaxCalls
    /\ LET run == DetokenizeRun(text, mapping)
       IN  calls' = Append(calls, [surface |-> "sdk", outcome |-> "ok", status |-> 0,
                                   fetched |-> 0, result |-> Returned(run), run |-> run])
    /\ mapping' = MappingAfterDetokenize(mapping)
    /\ UNCHANGED <<text, client, fetchCalls, req, req2>>

\* blindfold detokenize --mapping <json> <text>
CliDetokenize ==
    /\ Len(calls) < MaxCalls
    /\ \E env \in CliEnvs, resp \in Responses(text, mapping) :
          LET out == CliDetokenizeCommand(env, text, mapping, resp)
          IN  /\ calls' = Append(calls, [surface |-> "cli", outcome |-> out.outcome,
                                          status |-> out.status, fetched |-> Len(out.fetches),
                                          result |-> out.result, run |-> NoRun])
              /\ fetchCalls' = fetchCalls \o out.fetches
    /\ UNCHANGED <<text, mapping, client, req, req2>>

\* The MCP tool blindfold_detokenize called with text and mapping.
McpDetokenize ==
    /\ Len(calls) < MaxCalls
    /\ \E resp \in Responses(text, mapping) :
          LET out == McpDetokenizeTool(text, mapping, resp)
          IN  /\ calls' = Append(calls, [surface |-> "mcp", outcome |-> out.outcome,
                                          status |-> out.status, fetched |-> Len(out.fetches),
                                          result |-> out.result, run |-> NoRun])
              /\ fetchCalls' = fetchCalls \o out.fetches
    /\ UNCHANGED <<text, mapping, client, req, req2>>

\* One run of the tokenize command of the CLI.
CliTokenize ==
    /\ Len(calls) < MaxCalls
    /\ \E env \in CliTokenizeEnvs, resp \in Responses(text, mapping) :
          LET out == CliTokenizeCommand(env, resp)
          IN  /\ calls' = Append(calls, [surface |-> "cli", outcome |-> out.outcome,
                                          status |-> out.status, fetched |-> Len(out.fetches),
                                          result |-> out.result, run |-> NoRun])
              /\ fetchCalls' = fetchCalls \o out.fetches
    /\ UNCHANGED <<text, mapping, client, req, req2>>

\* Runs of commands of the CLI.
NextCli == CliDetokenize \/ CliTokenize

Next == SdkDetokenize \/ CliDetokenize \/ McpDetokenize

\* One call of the SDK method, for the properties of the detokenizer.
NextSdk == calls = <<>> /\ SdkDetokenize

\* A call of an SDK method that goes to the API, client.tokenize(text):
\* request('/tokenize', 'POST', body) up to its first await.
StartRequest ==
    /\ req.pc = "idle"
    /\ req' = Started(client, req).req
    /\ fetchCalls' = fetchCalls \o Started(client, req).fetches
    /\ UNCHANGED <<text, mapping, client, calls, req2>>

\* The promise of fetch settles: the rest of the iteration.
FetchSettles ==
    /\ req.pc = "inflight"
    /\ \E resp \in FetchOutcomes, random \in MathRandom :
          req' = SettledWith(client, req, resp, random)
    /\ UNCHANGED <<text, mapping, client, fetchCalls, calls, req2>>

\* The timer of sleep fires.
SleepEnds ==
    /\ req.pc = "sleeping"
    /\ req' = Woken(client, req).req
    /\ fetchCalls' = fetchCalls \o Woken(client, req).fetches
    /\ UNCHANGED <<text, mapping, client, calls, req2>>

\* The caller gives the call up (an interrupt, a deadline of its own) while
\* fetch is in flight or the call sleeps.  request takes no signal and
\* sleep no handle: nothing of the call reads the flag.
CancelCaller ==
    /\ req.pc \in {"inflight", "sleeping"}
    /\ ~req.cancelled
    /\ req' = [req EXCEPT !.cancelled = TRUE]
    /\ UNCHANGED <<text, mapping, client, fetchCalls, calls, req2>>

\* The same three steps of the second call, client.detect(text), made on
\* the same client while the first is in progress.
StartRequest2 ==
    /\ req2.pc = "idle"
    /\ req2' = Started(client, req2).req
    /\ fetchCalls' = fetchCalls \o Started(client, req2).fetches
    /\ UNCHANGED <<text, mapping, client, calls, req>>

\* Mutant: the loop counter is a field of the client, shared by its calls.
FetchSettles2SharedAttempt ==
    /\ req2.pc = "inflight"
    /\ \E resp \in FetchOutcomes, random \in MathRandom :
          req2' = SettledWith(client, req2, resp, random)
    /\ req' = [req EXCEPT !.attempt = req2.attempt + 1]
    /\ UNCHANGED <<text, mapping, client, fetchCalls, calls>>

FetchSettles2 ==
    /\ req2.pc = "inflight"
    /\ \E resp \in FetchOutcomes, random \in MathRandom :
          req2' = SettledWith(client, req2, resp, random)
    /\ UNCHANGED <<text, mapping, client, fetchCalls, calls, req>>

SleepEnds2 ==
    /\ req2.pc = "sleeping"
    /\ req2' = Woken(client, req2).req
    /\ fetchCalls' = fetchCalls \o Woken(client, req2).fetches
    /\ UNCHANGED <<text, mapping, client, calls, req>>

\* Two calls on one client, their steps interleaved in every order.
NextConcurrent ==
    \/ StartRequest \/ FetchSettles \/ SleepEnds
    \/ StartRequest2 \/ FetchSettles2 \/ SleepEnds2

NextRequest == StartRequest \/ FetchSettles \/ SleepEnds \/ CancelCaller

---------------------------------------------------------------------------
(* Specifications: the same operations over different input sets *)

\* Every surface, on a few inputs: the texts "", a and aa, the tokens a and
\* aa in both key orders.
Init ==
    InitWith(SeqsUpTo({"a"}, 2),
             MappingsUpTo({<<"a">>, <<"a", "a">>}, {<<"b">>}, 2))

Spec == Init /\ [][Next]_vars

\* Runs of the commands of the CLI on one text and one mapping.
InitCli ==
    InitWith({<<"a">>}, {m \in MappingsUpTo({<<"a">>}, {<<"b">>}, 1) : Len(m) = 1})

SpecCli == InitCli /\ [][NextCli]_vars

\* Tokens that are prefixes and substrings of one another.
InitLongest ==
    InitWith(SeqsUpTo({"a", "b"}, MaxTextLen),
             MappingsUpTo(SeqsUpTo({"a", "b"}, MaxTokenLen), {<<"a">>, <<"X">>}, MaxEntries))

SpecLongest == InitLongest /\ [][NextSdk]_vars

\* One token, values with the characters special to String.replace.
InitValues ==
    InitWith(SeqsUpTo({"a", "$"}, MaxTextLen),
             MappingsUpTo(SeqsUpTo({"a", "$"}, MaxTokenLen) \ {<<>>},
                          SeqsUpTo({"a", "$", "&", "'", Backtick, "1"}, MaxValueLen), 1))

SpecValues == InitValues /\ [][NextSdk]_vars

\* Tokens and texts with pattern metacharacters, the empty token included.
InitLiteral ==
    InitWith(SeqsUpTo({"a", ".", "$"}, MaxTextLen),
             MappingsUpTo(SeqsUpTo({".", "$"}, MaxTokenLen), {<<"X">>}, MaxEntries))

SpecLiteral == InitLiteral /\ [][NextSdk]_vars

\* The configurations of the client for the request executor: maxRetries
\* not given or 0..MaxRetriesBound, retryDelay not given (0.5 s), 0 or
\* 0.001 s (kept in milliseconds).
RequestConfigs ==
    [maxRetries : {NotGiven} \cup {NumberOf(k) : k \in 0..MaxRetriesBound},
     retryDelay : {NotGiven, NumberOf(0), NumberOf(1)}]

\* One logical call of request, for each configuration.
InitRequest ==
    /\ text = <<>>
    /\ mapping = <<>>
    /\ \E config \in RequestConfigs :
          /\ client = NewBlindfold([apiKey |-> "test", baseUrl |-> Undefined,
                                     userId |-> Undefined,
                                     maxRetries |-> config.maxRetries,
                                     retryDelay |-> config.retryDelay])
          /\ req = IdleRequest(config.maxRetries, config.retryDelay)
          /\ req2 = IdleRequest2(config.maxRetries, config.retryDelay)
    /\ fetchCalls = <<>>
    /\ calls = <<>>

SpecRequest == InitRequest /\ [][NextRequest]_vars

\* The same call where every step that can be taken is taken: the call is
\* made, every fetch settles and every timer of sleep fires.
SpecRequestFair ==
    /\ InitRequest
    /\ [][NextRequest]_vars
    /\ WF_vars(StartRequest)
    /\ WF_vars(FetchSettles)
    /\ WF_vars(SleepEnds)

\* Two concurrent calls on a client with one retry.
InitConcurrent ==
    /\ text = <<>>
    /\ mapping = <<>>
    /\ client = NewBlindfold([apiKey |-> "test", baseUrl |-> Undefined,
                               userId |-> Undefined, maxRetries |-> NumberOf(1),
                               retryDelay |-> NotGiven])
    /\ req = IdleRequest(NumberOf(1), NotGiven)
    /\ req2 = IdleRequest2(NumberOf(1), NotGiven)
    /\ fetchCalls = <<>>
    /\ calls = <<>>

SpecConcurrent == InitConcurrent /\ [][NextConcurrent]_vars

\* The options the constructor takes without checking them: a maxRetries
\* below 0, and userId absent, empty or given.
OptionConfigs ==
    [maxRetries : {NumberOf(k) : k \in (0 - MaxRetriesBound)..1},
     userId     : {Undefined, "", "user-1"}]

InitOptions ==
    /\ text = <<>>
    /\ mapping = <<>>
    /\ \E config \in OptionConfigs :
          /\ client = NewBlindfold([apiKey |-> "test-api-key", baseUrl |-> Undefined,
                                     userId |-> config.userId,
                                     maxRetries |-> config.maxRetries,
                                     retryDelay |-> NotGiven])
          /\ req = IdleRequest(config.maxRetries, NotGiven)
          /\ req2 = IdleRequest2(config.maxRetries, NotGiven)
    /\ fetchCalls = <<>>
    /\ calls = <<>>

SpecOptions == InitOptions /\ [][NextRequest]_vars

---------------------------------------------------------------------------
(* The library of the CLI called on its own: lib/config.ts and lib/api.ts *)

\* The values of a flag, an environment variable or a config field.
OptionValues(v) == {Undefined, "", v}

\* The bodies of an error response: JSON with a detail, with a message, with
\* both, with neither, and a body that is not JSON.
ErrorBodies ==
    {HttpBody("{json}", TRUE, d, m, NotGiven) : d \in {"", "Rate limited"},
                                                 m \in {"", "Too many requests"}}
    \cup {NotJson}

\* What the fetch of apiRequest can do: reject with an Error, with the
\* TypeError of fetch or with a value that is not an Error; answer with an
\* error status; answer 2xx with a JSON body or with a body that is not JSON.
CliResponses ==
    {Rejection(e) : e \in {[cls |-> "Error", message |-> "ECONNREFUSED"],
                            [cls |-> "TypeError", message |-> "fetch failed"],
                            [cls |-> "string", message |-> "timeout"]}}
    \cup {HttpResponse(st, b) : st \in {401, 403, 400, 429, 500}, b \in ErrorBodies}
    \cup {[HttpResponse(st, JsonBody(TRUE, "", NotGiven))
              EXCEPT !.payload = [text |-> <<>>, replacements_made |-> 0]] : st \in {200, 201}}
    \cup {HttpResponse(200, NotJson)}

InitCliLib == InitWith({<<>>}, {<<>>})

\* resolveApiKey(flagValue) in one environment.
ResolveApiKeyCall ==
    /\ calls = <<>>
    /\ \E flagValue \in OptionValues("flag-key"), envKey \in OptionValues("env-key"),
          configKey \in OptionValues("config-key") :
          calls' = <<[op |-> "resolveApiKey", flag |-> flagValue, env |-> envKey,
                      config |-> configKey,
                      out |-> ResolveApiKey(flagValue, envKey, configKey)]>>
    /\ UNCHANGED <<text, mapping, client, fetchCalls, req, req2>>

\* resolveBaseUrl(flagValue, regionFlag) in one environment.
ResolveBaseUrlCall ==
    /\ calls = <<>>
    /\ \E flagValue \in OptionValues("https://flag.test"),
          envUrl \in OptionValues("https://env.test"),
          configUrl \in OptionValues("https://config.test"),
          regionFlag \in {Undefined, "EU", "ap"},
          envRegion \in {Undefined, "Us", "constructor"},
          configRegion \in {Undefined, "", "eu"} :
          calls' = <<[op |-> "resolveBaseUrl", flag |-> flagValue, env |-> envUrl,
                      config |-> configUrl, regionFlag |-> regionFlag,
                      envRegion |-> envRegion, configRegion |-> configRegion,
                      out |-> ResolveBaseUrl(flagValue, envUrl, configUrl,
                                             regionFlag, envRegion, configRegion)]>>
    /\ UNCHANGED <<text, mapping, client, fetchCalls, req, req2>>

\* apiRequest(endpoint, body) of createApiRequest(apiKey, baseUrl).
ApiRequestCall ==
    /\ calls = <<>>
    /\ \E resp \in CliResponses :
          LET out == CliApiRequest("test-key", "https://api.blindfold.dev", "/tokenize", resp)
          IN  /\ calls' = <<[op |-> "apiRequest", resp |-> resp, out |-> out]>>
              /\ fetchCalls' = fetchCalls \o out.fetches
    /\ UNCHANGED <<text, mapping, client, req, req2>>

NextCliLib == ResolveApiKeyCall \/ ResolveBaseUrlCall \/ ApiRequestCall

SpecCliLib == InitCliLib /\ [][NextCliLib]_vars

---------------------------------------------------------------------------
(* The request functions of the three surfaces on one script of the
   transport *)

\* The kind a caller sees an outcome as: the class of the error thrown, or
\* Success.
KindOf(cls) ==
    CASE cls \in {"ok", "none"}       -> "Success"
      [] cls = "AuthenticationError" -> "Authentication"
      [] cls = "APIError"            -> "ApiError"
      [] cls = "NetworkError"        -> "Network"
      [] OTHER                       -> cls

\* Blindfold.request run to its end, client.ts:84-157, the k-th fetch
\* settling with script[k]; the jitter drawn changes the waits only.
RECURSIVE SdkRun(_, _, _)
SdkRun(c, script, attempt) ==
    IF attempt > c.maxRetries
    THEN [attempts |-> attempt, kind |-> "Network", status |-> 0]
    ELSE LET out == Attempt(c, attempt, script[attempt + 1], 0)
         IN  IF out.next = "sleep" THEN SdkRun(c, script, attempt + 1)
             ELSE [attempts |-> attempt + 1,
                   kind     |-> KindOf(out.thrown.cls),
                   status   |-> IF out.thrown.cls = "APIError" THEN out.thrown.statusCode
                                ELSE 0]

\* apiRequest of the CLI and of the MCP server on the same script.
SingleRun(out) ==
    [attempts |-> Len(out.fetches),
     kind     |-> KindOf(out.outcome),
     status   |-> IF out.outcome = "APIError" THEN out.status ELSE 0]

\* The scripts of the transport: as many outcomes as a client with the
\* default configuration can ask for.
Scripts(c) == [1..(c.maxRetries + 1) -> FetchOutcomes]

\* One logical request made through each surface against the same script.
RequestOnEverySurface ==
    /\ calls = <<>>
    /\ \E script \in Scripts(client) :
          calls' = <<[op     |-> "request",
                      script |-> script,
                      sdk    |-> SdkRun(client, script, 0),
                      cli    |-> SingleRun(CliApiRequest(client.apiKey, DEFAULT_BASE_URL,
                                                         "/tokenize", script[1])),
                      mcp    |-> SingleRun(McpApiRequest(client.apiKey, DEFAULT_BASE_URL,
                                                         "/tokenize", script[1]))]>>
    /\ UNCHANGED <<text, mapping, client, fetchCalls, req, req2>>

SpecSurfaces == InitCliLib /\ [][RequestOnEverySurface]_vars

---------------------------------------------------------------------------
(* Properties *)

SdkCalls == {i \in 1..Len(calls) : calls[i].surface = "sdk"}

Tokens(m) == {m[i].token : i \in 1..Len(m)}

ProperSubstring(s, l) == s # l /\ IsSubstring(s, l)

\* The input positions covered by the occurrences of tok that start at the
\* positions in starts.
Covered(tok, starts) == UNION {q..(q + Len(tok) - 1) : q \in starts}

RECURSIVE ScanOccurrences(_, _, _)
\* The occurrences of the non-empty tok in s that a left-to-right scan
\* finds, each search starting where the previous occurrence ended.
ScanOccurrences(tok, s, start) ==
    LET later == {q \in Occurrences(tok, s) : q >= start}
    IN  IF later = {} THEN {}
        ELSE LET q == CHOOSE x \in later : \A y \in later : x <= y
             IN  {q} \cup ScanOccurrences(tok, s, q + Len(tok))

\* The log entries of a run for one token.
EntriesOf(run, tok) == {k \in 1..Len(run.log) : run.log[k].token = tok}

\* The input positions that the matches of log entry e consumed.
Consumed(e) == UNION {{e.from[k][j] : j \in 1..Len(e.from[k])} : k \in 1..Len(e.from)} \ {0}

\* C1 as stated: Longest-match safety.  For every pair of tokens S, L of the
\* mapping with S a proper prefix or substring of L, S is never matched
\* inside an occurrence of L in the input text, and every occurrence of L
\* in the input text is replaced by L's value.
C1_LongestMatchSafety ==
    \A i \in SdkCalls : \A S \in Tokens(mapping), L \in Tokens(mapping) :
        ProperSubstring(S, L) =>
            /\ \A k \in EntriesOf(calls[i].run, S) :
                   Consumed(calls[i].run.log[k]) \cap Covered(L, Occurrences(L, text)) = {}
            /\ \A q \in Occurrences(L, text) :
                   \E k \in EntriesOf(calls[i].run, L) :
                       \E h \in 1..Len(calls[i].run.log[k].from) :
                           /\ calls[i].run.log[k].from[h] = [j \in 1..Len(L) |-> q + j - 1]
                           /\ calls[i].run.log[k].ins[h] = calls[i].run.log[k].value

\* L is strictly longer than every other token of the mapping.
StrictlyLongest(L, m) == \A T \in Tokens(m) \ {L} : Len(T) < Len(L)

\* C1 as amended: tokens are processed longest first; when L is strictly
\* the longest token and S a proper substring of it, every occurrence of L
\* that the left-to-right non-overlapping scan of the input text finds is
\* replaced and counted, and S is never matched on the input characters of
\* those occurrences.
C1_LongestFirst ==
    \A i \in SdkCalls :
        /\ \A k \in 1..(Len(calls[i].run.log) - 1) :
               Len(calls[i].run.log[k].token) >= Len(calls[i].run.log[k + 1].token)
        /\ \A S \in Tokens(mapping), L \in Tokens(mapping) :
               (ProperSubstring(S, L) /\ StrictlyLongest(L, mapping)) =>
                   /\ \A k \in EntriesOf(calls[i].run, S) :
                          Consumed(calls[i].run.log[k])
                              \cap Covered(L, ScanOccurrences(L, text, 1)) = {}
                   /\ \A q \in ScanOccurrences(L, text, 1) :
                          \E k \in EntriesOf(calls[i].run, L) :
                              \E h \in 1..Len(calls[i].run.log[k].from) :
                                  calls[i].run.log[k].from[h] = [j \in 1..Len(L) |-> q + j - 1]

\* A call in which L occurred and was replaced, and its proper substring S
\* was matched elsewhere in the input.
C1_Witness ==
    \E i \in SdkCalls : \E S \in Tokens(mapping), L \in Tokens(mapping) :
        /\ ProperSubstring(S, L) /\ S # <<>>
        /\ ScanOccurrences(L, text, 1) # {}
        /\ \E k \in EntriesOf(calls[i].run, S) : Consumed(calls[i].run.log[k]) # {}

\* C2: Literal value preservation.  Every occurrence replaced appears in
\* the output exactly as the mapped value, character for character.
C2_LiteralValue ==
    \A i \in SdkCalls : \A k \in 1..Len(calls[i].run.log) :
        \A h \in 1..Len(calls[i].run.log[k].ins) :
            calls[i].run.log[k].ins[h] = calls[i].run.log[k].value

\* C3: inserted text is never re-interpreted.  No match of any token
\* includes a character that an earlier replacement inserted.
C3_NoReinterpretation ==
    \A i \in SdkCalls : \A k \in 1..Len(calls[i].run.log) :
        \A h \in 1..Len(calls[i].run.log[k].from) :
            \A j \in 1..Len(calls[i].run.log[k].from[h]) :
                calls[i].run.log[k].from[h][j] # 0

RECURSIVE LiteralReplace(_, _, _, _)
\* s from position p on, with the occurrences of tok replaced by the
\* characters of value.
LiteralReplace(s, tok, value, p) ==
    IF p > Len(s) THEN <<>>
    ELSE IF p \in Occurrences(tok, s)
         THEN value \o LiteralReplace(s, tok, value, p + Len(tok))
         ELSE <<s[p]>> \o LiteralReplace(s, tok, value, p + 1)

NonOverlapping(tok, s) ==
    \A p \in Occurrences(tok, s), q \in Occurrences(tok, s) : p < q => p + Len(tok) <= q

RECURSIVE TotalMatches(_)
TotalMatches(log) ==
    IF log = <<>> THEN 0 ELSE Len(Head(log).matched) + TotalMatches(Tail(log))

\* C4: Replacement count equals occurrence count.  For a mapping {T: V}
\* with T non-empty and a text holding T exactly N times without overlap,
\* replacements_made = N and the text returned has all N occurrences
\* replaced by V; in general replacements_made is the number of
\* occurrences substituted.
C4_CountEqualsOccurrences ==
    \A i \in SdkCalls :
        /\ calls[i].result.replacements_made = TotalMatches(calls[i].run.log)
        /\ (Len(mapping) = 1 /\ mapping[1].token # <<>>
                /\ NonOverlapping(mapping[1].token, text)) =>
               /\ calls[i].result.replacements_made
                      = Cardinality(Occurrences(mapping[1].token, text))
               /\ calls[i].result.text
                      = LiteralReplace(text, mapping[1].token, mapping[1].value, 1)

\* C5: No-op detokenization.  If no token of the mapping occurs in the
\* text (the empty mapping included), the text is returned unchanged with
\* replacements_made = 0.
C5_NoOp ==
    \A i \in SdkCalls :
        (\A T \in Tokens(mapping) : ~IsSubstring(T, text)) =>
            calls[i].result = [text |-> text, replacements_made |-> 0]

\* A call on a non-empty text with a two-token mapping none of whose tokens
\* occurs in it, one of them holding a metacharacter.
C5_Witness ==
    \E i \in SdkCalls :
        /\ Len(text) >= 2 /\ Len(mapping) = 2
        /\ \A T \in Tokens(mapping) : ~IsSubstring(T, text)
        /\ \E T \in Tokens(mapping) : \E j \in 1..Len(T) : T[j] \in MetaChars

\* C6: for every mapping, detokenize of the empty text returns the empty
\* text and replacements_made = 0.
C6_EmptyText ==
    \A i \in SdkCalls :
        text = <<>> => calls[i].result = [text |-> <<>>, replacements_made |-> 0]

\* C7: Token-as-literal matching.  Whatever metacharacters a token holds,
\* every substring matched for it is that exact character sequence, and
\* nothing else is counted.
C7_TokenLiteral ==
    \A i \in SdkCalls :
        /\ \A k \in 1..Len(calls[i].run.log) :
               \A h \in 1..Len(calls[i].run.log[k].matched) :
                   calls[i].run.log[k].matched[h] = calls[i].run.log[k].token
        /\ calls[i].result.replacements_made = TotalMatches(calls[i].run.log)

\* A call in which a token made of metacharacters matched, in a text that
\* also holds other characters.
C7_Witness ==
    \E i \in SdkCalls : \E k \in 1..Len(calls[i].run.log) :
        /\ calls[i].run.log[k].token \in {<<".">>, <<".", "$">>, <<"$", ".">>}
        /\ Len(calls[i].run.log[k].matched) >= 1
        /\ \E j \in 1..Len(text) : text[j] \notin MetaChars

\* The key orders of the mappings holding the same pairs as m.
KeyOrders(m) ==
    {[i \in 1..Len(m) |-> m[f[i]]] :
        f \in {g \in [1..Len(m) -> 1..Len(m)] : \A a, b \in 1..Len(m) : a # b => g[a] # g[b]}}

\* C8: the result does not depend on the order in which the mapping
\* enumerates its keys.
C8_OrderIndependent ==
    \A i \in SdkCalls : \A m2 \in KeyOrders(mapping) :
        detokenize(text, m2) = calls[i].result

RECURSIVE TotalFetched(_)
TotalFetched(cs) == IF cs = <<>> THEN 0 ELSE Head(cs).fetched + TotalFetched(Tail(cs))

---------------------------------------------------------------------------
(* Properties of the request executor *)

\* The attempts whose fetch has settled, and the attempts made.
Settled == 1..Len(req.log)

Attempts == Len(fetchCalls)

Ended == req.pc \in {"returned", "thrown"}

\* The waits observed: the attempts after which the call slept.
Waited == {i \in Settled : req.log[i].wait # NoWait}

\* maxRetries and retryDelay (in milliseconds) as the caller configured
\* them, the documented defaults standing for an option not given.
ConfiguredMaxRetries ==
    IF req.config.maxRetries.type = "number" THEN req.config.maxRetries.value ELSE 2

ConfiguredRetryDelay ==
    IF req.config.retryDelay.type = "number" THEN req.config.retryDelay.value ELSE 500

\* The outcomes of an attempt as the specification names them.
NetworkFailure(resp) == resp.kind = "reject"

RetryableStatus(resp) == resp.kind = "http" /\ resp.status \in {429, 500, 502, 503, 504}

RetryableOutcome(resp) == NetworkFailure(resp) \/ RetryableStatus(resp)

AuthFailure(resp) == resp.kind = "http" /\ resp.status \in {401, 403}

Success(resp) == resp.kind = "http" /\ resp.status \in 200..299 /\ resp.body.parses

PermanentFailure(resp) ==
    /\ resp.kind = "http"
    /\ resp.status \notin 200..299
    /\ resp.status \notin {401, 403, 429, 500, 502, 503, 504}

AllRetryable(n) == \A i \in 1..n : RetryableOutcome(req.log[i].resp)

\* C11: retry then success: when the first k <= maxRetries attempts each
\* fail with a retryable outcome the call goes on to attempt k + 1 with a
\* wait after each failure, and when attempt k + 1 then returns 2xx the call
\* returns that value after exactly k + 1 attempts and k waits.
C11_RetryThenSuccess ==
    LET n == Len(req.log)
    IN  /\ (AllRetryable(n) /\ n <= ConfiguredMaxRetries) =>
               /\ ~Ended
               /\ Waited = 1..n
               /\ Attempts \in {n, n + 1}
        /\ (n >= 1 /\ AllRetryable(n - 1) /\ n - 1 <= ConfiguredMaxRetries
               /\ Success(req.log[n].resp)) =>
               /\ req.pc = "returned"
               /\ req.value = req.log[n].resp.body
               /\ Attempts = n
               /\ Waited = 1..(n - 1)

\* C12: an attempt that receives 401 or 403 ends the call at once with an
\* AuthenticationError, at any attempt index and with any budget left: no
\* wait and no attempt follows, and on the first attempt the call has made
\* exactly one attempt.
C12_AuthNeverRetried ==
    \A i \in Settled :
        AuthFailure(req.log[i].resp) =>
            /\ i = Len(req.log)
            /\ req.pc = "thrown"
            /\ req.thrown.cls = "AuthenticationError"
            /\ req.log[i].wait = NoWait
            /\ Attempts = i

\* A 401 on a retry, with budget left.
C12_Witness ==
    /\ Len(req.log) = 2
    /\ req.log[2].resp.status = 401
    /\ ConfiguredMaxRetries = 2
    /\ req.pc = "thrown"

\* The error a failed attempt is classified as: class, status code and body.
Classified(resp) ==
    IF NetworkFailure(resp) THEN [cls |-> "NetworkError", statusCode |-> 0, responseBody |-> NotJson]
    ELSE IF AuthFailure(resp) THEN [cls |-> "AuthenticationError", statusCode |-> 401, responseBody |-> NotJson]
    ELSE [cls |-> "APIError", statusCode |-> resp.status, responseBody |-> resp.body]

ThrownAs(e) == [cls |-> e.cls, statusCode |-> e.statusCode, responseBody |-> e.responseBody]

\* C13: retry exhaustion: when every attempt fails with a retryable
\* outcome the call makes exactly maxRetries + 1 attempts and then raises
\* the classified error of the last one.
C13_Exhaustion ==
    LET n == Len(req.log)
    IN  AllRetryable(n) =>
            /\ Attempts <= ConfiguredMaxRetries + 1
            /\ Ended => /\ n = ConfiguredMaxRetries + 1
                        /\ Attempts = n
                        /\ req.pc = "thrown"
                        /\ ThrownAs(req.thrown) = Classified(req.log[n].resp)
            /\ n = ConfiguredMaxRetries + 1 => Ended

\* C14: a non-2xx status other than 401, 403, 429, 500, 502, 503 and 504
\* ends the call at once with an APIError of that status code, whatever
\* budget remains: no wait and no attempt follows.
C14_PermanentNotRetried ==
    \A i \in Settled :
        PermanentFailure(req.log[i].resp) =>
            /\ i = Len(req.log)
            /\ req.pc = "thrown"
            /\ req.thrown.cls = "APIError"
            /\ req.thrown.statusCode = req.log[i].resp.status
            /\ req.log[i].wait = NoWait
            /\ Attempts = i

\* A 400 on a retry, with budget left.
C14_Witness ==
    /\ Len(req.log) = 2
    /\ req.log[2].resp.status = 400
    /\ ConfiguredMaxRetries = 2
    /\ req.thrown.statusCode = 400

\* C15: every rejection of fetch, whatever the value, is a Network error
\* and is retryable: with attempt < maxRetries a wait and another attempt
\* follow, and only with the budget used up is a NetworkError raised.
C15_TransportFailureRetried ==
    \A i \in Settled :
        NetworkFailure(req.log[i].resp) =>
            /\ i - 1 < ConfiguredMaxRetries => req.log[i].wait # NoWait /\ ~(Ended /\ i = Len(req.log))
            /\ i - 1 >= ConfiguredMaxRetries =>
                   req.pc = "thrown" /\ req.thrown.cls = "NetworkError"

\* C16: a call makes at most maxRetries + 1 attempts; with maxRetries 0 it
\* makes exactly one and never waits; with maxRetries not configured the
\* bound is 3.
C16_RetryBudget ==
    /\ Attempts <= ConfiguredMaxRetries + 1
    /\ Len(req.log) <= Attempts
    /\ req.config.maxRetries = NumberOf(0) =>
           /\ Waited = {}
           /\ req.pc # "sleeping"
           /\ req.pc # "idle" => Attempts = 1
           /\ Len(req.log) = 1 => Ended
    /\ req.config.maxRetries = NotGiven => Attempts <= 3

\* maxRetries 0 and a retryable failure; the default and three attempts.
C16_Witness ==
    /\ req.config.maxRetries = NumberOf(0)
    /\ req.pc = "thrown"
    /\ RetryableStatus(req.log[1].resp)

C16_WitnessDefault ==
    /\ req.config.maxRetries = NotGiven
    /\ Attempts = 3
    /\ Ended

\* The attempts whose failure carries a numeric retry_after on a 429.
Hinted(i) ==
    /\ req.log[i].resp.kind = "http"
    /\ req.log[i].resp.status = 429
    /\ req.log[i].resp.body.parses
    /\ req.log[i].resp.body.retry_after.type = "number"

\* C17: after a 429 whose body carries a numeric retry_after of s seconds,
\* with attempt < maxRetries, the wait is exactly s seconds (here in
\* microseconds), at every attempt index and for every retryDelay.
C17_RetryAfterHonored ==
    \A i \in Settled :
        (Hinted(i) /\ i - 1 < ConfiguredMaxRetries) =>
            req.log[i].wait = req.log[i].resp.body.retry_after.value * 1000000

\* A hint of 2 s on the second attempt, where the backoff would be 1 s or more.
C17_Witness ==
    /\ Len(req.log) >= 2
    /\ Hinted(2)
    /\ req.log[2].resp.body.retry_after.value = 2
    /\ req.log[2].wait = 2000000
    /\ ConfiguredRetryDelay = 500
    /\ req.pc = "inflight"

\* The waits computed without a retry-after hint, by attempt (1-based).
Unhinted == {i \in Waited : ~Hinted(i)}

\* C18: a wait w after attempt index k without a retry-after hint satisfies
\* retryDelay * 2^k <= w <= 1.1 * retryDelay * 2^k, and successive such
\* waits of one call never decrease.  (Attempt index k is entry k + 1 of
\* the log; times in microseconds, retryDelay in milliseconds.)
C18_BackoffBounds ==
    /\ \A i \in Unhinted :
           LET base == ConfiguredRetryDelay * 1000 * Pow2(i - 1)
           IN  /\ base <= req.log[i].wait
               /\ 10 * req.log[i].wait <= 11 * base
    /\ \A i, j \in Unhinted : i < j => req.log[i].wait <= req.log[j].wait

\* Two waits without hint, the first with the largest jitter drawn and the
\* second with none.
C18_Witness ==
    /\ {1, 2} \subseteq Unhinted
    /\ req.log[1].wait > ConfiguredRetryDelay * 1000
    /\ req.log[2].wait = ConfiguredRetryDelay * 1000 * 2

\* How the specification classifies the last attempt of a call.
Classification(resp) ==
    IF NetworkFailure(resp) THEN "NetworkError"
    ELSE IF AuthFailure(resp) THEN "AuthenticationError"
    ELSE IF resp.status \in 200..299 THEN "success"
    ELSE "APIError"

\* C19: a call ends in exactly one of a decoded success value, an
\* AuthenticationError, an APIError or a NetworkError, and the kind is the
\* classification of the call's last attempt.
C19_ClosedTaxonomy ==
    Ended =>
        /\ req.pc = "returned" => req.thrown = NoThrow /\ req.value.parses
        /\ req.pc = "thrown" =>
               req.thrown.cls \in {"AuthenticationError", "APIError", "NetworkError"}
        /\ Len(req.log) >= 1
        /\ Classification(req.log[Len(req.log)].resp)
               = (IF req.pc = "returned" THEN "success" ELSE req.thrown.cls)

\* The closed set alone: what reaches the caller is a decoded value or an
\* error of one of the three classes.
ClosedSet ==
    Ended =>
        \/ req.pc = "returned" /\ req.thrown = NoThrow /\ req.value.parses
        \/ req.pc = "thrown"
              /\ req.thrown.cls \in {"AuthenticationError", "APIError", "NetworkError"}

\* C20: once the caller has cancelled during a wait or a fetch in flight,
\* the call makes no further attempt, and it ends with a cancellation.
C20_Cancellation ==
    /\ [][req.cancelled => fetchCalls' = fetchCalls]_vars
    /\ []((req.cancelled /\ Ended) => req.thrown.cls = "AbortError")

\* Cancelled calls still stop: every call ends within its budget.
CancelledCallEnds == req.cancelled => Attempts <= ConfiguredMaxRetries + 1

\* C27: an attempt that receives a 2xx status ends the call in success with
\* the decoded body: no retry, no wait and no error follows a 2xx, and a
\* NetworkError is raised only when the last attempt got no HTTP response.
C27_SuccessOn2xx ==
    /\ \A i \in Settled :
           (req.log[i].resp.kind = "http" /\ req.log[i].resp.status \in 200..299) =>
               /\ i = Len(req.log)
               /\ req.log[i].wait = NoWait
               /\ req.pc = "returned"
               /\ req.thrown = NoThrow
               /\ req.value = req.log[i].resp.body
    /\ (req.pc = "thrown" /\ req.thrown.cls = "NetworkError") =>
           (Len(req.log) >= 1 /\ NetworkFailure(req.log[Len(req.log)].resp))

\* C28: for every integer maxRetries, below 0 included, a call makes at
\* least one attempt before it returns or raises, and the NetworkError
\* created before the loop never reaches the caller.
C28_AtLeastOneAttempt ==
    Ended => /\ Attempts >= 1
             /\ req.thrown # NetworkError("Request failed")

\* The same for maxRetries >= 0 only.
AtLeastOneAttemptFromZero ==
    (Ended /\ ConfiguredMaxRetries >= 0) =>
        /\ Attempts >= 1
        /\ req.thrown # NetworkError("Request failed")

\* C30: every attempt of a call, retries included, sends the same request:
\* the url, the method and the body of the first attempt, X-API-Key equal
\* to the configured key, and X-Blindfold-User-Id exactly when a userId
\* (a non-empty one) is configured.
C30_SameRequest ==
    \A k \in 1..Len(fetchCalls) :
        /\ fetchCalls[k] = fetchCalls[1]
        /\ fetchCalls[k].method = "POST"
        /\ fetchCalls[k].url = <<client.baseUrl, "/tokenize">>
        /\ fetchCalls[k].apiKey = "test-api-key"
        /\ fetchCalls[k].userId = (IF client.userId = "user-1" THEN "user-1" ELSE Undefined)

\* A retry sent for a client with a userId.
C30_Witness ==
    /\ Len(fetchCalls) = 2
    /\ client.userId = "user-1"
    /\ fetchCalls[2].userId = "user-1"
    /\ Len(req.log) = 2

\* The state of the per-call state machine a call is in.  A call that has
\* thrown is in RetriesExhausted when its last attempt failed with a
\* retryable outcome at attempt index maxRetries; a call that ended in
\* no way the machine has is in the state Outside.
MachineState ==
    LET last == req.log[Len(req.log)].resp
    IN  CASE req.pc = "idle"     -> "NotStarted"
          [] req.pc = "inflight" -> "Attempting"
          [] req.pc = "sleeping" -> "Waiting"
          [] req.pc = "returned" ->
                 IF Len(req.log) >= 1 /\ Success(last) THEN "Success" ELSE "Outside"
          [] req.pc = "thrown" ->
                 IF Len(req.log) = 0 THEN "Outside"
                 ELSE IF AuthFailure(last) /\ req.thrown.cls = "AuthenticationError"
                      THEN "AuthFailure"
                 ELSE IF PermanentFailure(last) /\ req.thrown.cls = "APIError"
                      THEN "PermanentApiFailure"
                 ELSE IF RetryableOutcome(last) /\ Len(req.log) = ConfiguredMaxRetries + 1
                         /\ ThrownAs(req.thrown) = Classified(last)
                      THEN "RetriesExhausted"
                 ELSE "Outside"

Terminals == {"Success", "AuthFailure", "PermanentApiFailure", "RetriesExhausted"}

\* The moves of the machine.
MachineMoves ==
    {<<"NotStarted", "Attempting">>, <<"Waiting", "Attempting">>, <<"Attempting", "Waiting">>}
    \cup {<<"Attempting", t>> : t \in Terminals}

\* After a terminal state nothing of the call happens.
TerminalIsFinal == [][Ended => (req' = req /\ fetchCalls' = fetchCalls)]_vars

\* With every fetch settling and every timer firing, the call ends.
Terminates == <>Ended

\* C29: a call moves only along the moves of the machine, it reaches a
\* terminal state when every fetch and every wait completes, and after a
\* terminal state no attempt and no wait of the call occurs.
C29_StateMachine ==
    /\ [][MachineState' = MachineState \/ <<MachineState, MachineState'>> \in MachineMoves]_vars
    /\ TerminalIsFinal
    /\ Terminates

\* The attempts of one call among the requests handed to fetch.
FetchesOf(r) == {k \in 1..Len(fetchCalls) : fetchCalls[k].call = r.call}

\* The call r is where its own settled attempts put it: each attempt but
\* the last was followed by the wait retryWait gives for it, the last one
\* decides how the call stands, and the call has made one fetch for each
\* settled attempt and one more when a fetch is in flight.
DeterminedByOwnAttempts(r) ==
    LET n == Len(r.log)
    IN  /\ Cardinality(FetchesOf(r)) = n + (IF r.pc = "inflight" THEN 1 ELSE 0)
        /\ r.attempt = (IF r.pc \in {"idle", "inflight"} THEN n ELSE n - 1)
        /\ n = 0 => r.pc \in {"idle", "inflight"}
        /\ \A i \in 1..n :
               \E random \in MathRandom :
                   LET out == Attempt(client, i - 1, r.log[i].resp, random)
                   IN  /\ out.wait = r.log[i].wait
                       /\ i < n => out.next = "sleep"
                       /\ i = n =>
                              /\ r.thrown = out.thrown
                              /\ r.value = out.value
                              /\ r.pc \in (CASE out.next = "return" -> {"returned"}
                                             [] out.next = "throw"  -> {"thrown"}
                                             [] out.next = "sleep"  -> {"sleeping", "inflight"})

\* C21: concurrent calls on one client are independent: under every
\* interleaving each call's attempts, waits and outcome follow from the
\* outcomes of its own attempts, and the client's apiKey, baseUrl,
\* maxRetries and retryDelay stay as set at construction.
C21_IndependentCalls ==
    /\ DeterminedByOwnAttempts(req)
    /\ DeterminedByOwnAttempts(req2)
    /\ client.apiKey = "test"
    /\ client.baseUrl = DEFAULT_BASE_URL
    /\ client.maxRetries = ConfiguredMaxRetries
    /\ client.retryDelay = ConfiguredRetryDelay

\* The first call has been retried and has succeeded while the second,
\* started in between, has failed for good on its first attempt.
C21_Witness ==
    /\ req.pc = "returned" /\ Len(req.log) = 2
    /\ req2.pc = "thrown" /\ Len(req2.log) = 1
    /\ Len(fetchCalls) = 3
    /\ fetchCalls[1].call = 1 /\ fetchCalls[2].call = 2 /\ fetchCalls[3].call = 1

\* The calls of one operation of the CLI library.
LibCalls(op) == {i \in 1..Len(calls) : calls[i].op = op}

\* C24: apiRequest issues exactly one HTTP request per call; a rejected fetch
\* gives NetworkError, 401 or 403 gives AuthenticationError, any other
\* status outside 2xx gives an APIError with that status whose message is the
\* detail of the body, else its message, else the raw text, and a 2xx status
\* gives the parsed JSON body.
C24_CliClassification ==
    \A i \in LibCalls("apiRequest") :
        LET resp == calls[i].resp
            out  == calls[i].out
        IN  /\ Len(out.fetches) = 1
            /\ resp.kind = "reject" => out.outcome = "NetworkError"
            /\ resp.kind = "http" /\ resp.status \in {401, 403}
                   => out.outcome = "AuthenticationError"
            /\ resp.kind = "http" /\ resp.status \notin {401, 403} /\ ~Ok(resp.status)
                   => /\ out.outcome = "APIError"
                      /\ out.status = resp.status
                      /\ out.message = IF resp.body.parses /\ resp.body.detail # ""
                                        THEN resp.body.detail
                                        ELSE IF resp.body.parses /\ resp.body.message # ""
                                        THEN resp.body.message
                                        ELSE resp.body.text
            /\ resp.kind = "http" /\ Ok(resp.status)
                   => out.outcome = "ok" /\ out.result = resp.payload

\* The same classification for every answer but a 2xx answer whose body is
\* not JSON.
CliClassificationOfDecodable ==
    (\A i \in LibCalls("apiRequest") :
        ~(calls[i].resp.kind = "http" /\ Ok(calls[i].resp.status)
          /\ ~calls[i].resp.body.parses))
    => C24_CliClassification

\* The first value of a sequence that is neither absent nor empty.
FirstSet(values) ==
    LET set == {k \in 1..Len(values) : Truthy(values[k])}
    IN  IF set = {} THEN Undefined
        ELSE values[CHOOSE k \in set : \A l \in set : k <= l]

\* C25: resolveApiKey returns the first non-empty value of the flag, the
\* environment variable and the apiKey of the config file, in that order, and
\* raises ConfigError exactly when all three are absent or empty.
C25_ApiKeyOrder ==
    \A i \in LibCalls("resolveApiKey") :
        LET c     == calls[i]
            first == FirstSet(<<c.flag, c.env, c.config>>)
        IN  /\ c.out.outcome = "ConfigError" <=> first = Undefined
            /\ first # Undefined => c.out.outcome = "ok" /\ c.out.value = first

\* resolveApiKey has passed over an empty flag and returned the environment
\* variable although the config file holds a key too.
C25_Witness ==
    \E i \in LibCalls("resolveApiKey") :
        /\ calls[i].flag = "" /\ calls[i].env = "env-key" /\ calls[i].config = "config-key"
        /\ calls[i].out.value = "env-key"

\* The region names of the CLI, matched without regard to case.
RegionNamed(region) ==
    IF region \in {"eu", "EU", "Eu", "eU"} THEN "eu"
    ELSE IF region \in {"us", "US", "Us", "uS"} THEN "us"
    ELSE Undefined

\* C26: resolveBaseUrl returns the first value set of the flag,
\* BLINDFOLD_BASE_URL and the baseUrl of the config, else the URL of the
\* resolved region (flag, BLINDFOLD_REGION, config; eu and us in any case),
\* else the default URL; ConfigError is raised for a region other than eu or
\* us.
C26_BaseUrlOrder ==
    \A i \in LibCalls("resolveBaseUrl") :
        LET c        == calls[i]
            explicit == FirstSet(<<c.flag, c.env, c.config>>)
            region   == FirstSet(<<c.regionFlag, c.envRegion, c.configRegion>>)
        IN  IF explicit # Undefined
            THEN c.out.outcome = "ok" /\ c.out.value = explicit
            ELSE IF region = Undefined
            THEN c.out.outcome = "ok" /\ c.out.value = "https://api.blindfold.dev"
            ELSE IF RegionNamed(region) = Undefined
            THEN c.out.outcome = "ConfigError"
            ELSE c.out.outcome = "ok" /\ c.out.value = REGION_URLS[RegionNamed(region)]

\* The same order for every region that is not the name of a property every
\* object inherits.
BaseUrlOrderOfOwnKeys ==
    (\A i \in LibCalls("resolveBaseUrl") :
        FirstSet(<<calls[i].flag, calls[i].env, calls[i].config>>) # Undefined
        \/ FirstSet(<<calls[i].regionFlag, calls[i].envRegion, calls[i].configRegion>>)
              # "constructor")
    => C26_BaseUrlOrder

\* C23: in every CLI command a ConfigError or an InputError is raised before
\* any HTTP request is issued: the run that ends in one has issued no
\* request, so no transport attempt is followed by such an error and none is
\* retried.
C23_LocalErrorsBeforeRequest ==
    /\ \A i \in 1..Len(calls) :
           calls[i].outcome \in {"ConfigError", "InputError"} => calls[i].fetched = 0
    /\ Len(fetchCalls) = TotalFetched(calls)
    /\ [][\A kind \in {"ConfigError", "InputError"} :
              (Len(calls') = Len(calls) + 1 /\ calls'[Len(calls')].outcome = kind)
                  => fetchCalls' = fetchCalls]_vars

\* One run has ended in a ConfigError and another in an InputError.
C23_Witness ==
    /\ \E i \in 1..Len(calls) : calls[i].outcome = "ConfigError"
    /\ \E i \in 1..Len(calls) : calls[i].outcome = "InputError"

\* C22: for every sequence of transport outcomes the request functions of
\* the CLI and of the MCP server make as many transport attempts and end in
\* the same kind of outcome (with the same status for an ApiError) as
\* Blindfold.request with its default configuration.
C22_SameContract ==
    \A i \in LibCalls("request") :
        /\ calls[i].cli = calls[i].sdk
        /\ calls[i].mcp = calls[i].sdk

\* The CLI agrees with the SDK wherever the SDK ends at its first attempt on
\* a decodable answer.
CliAgreesOnOneAttempt ==
    \A i \in LibCalls("request") :
        LET first == calls[i].script[1]
        IN  (calls[i].sdk.attempts = 1
             /\ ~(first.kind = "http" /\ Ok(first.status) /\ ~first.body.parses))
            => calls[i].cli = calls[i].sdk

\* The MCP server agrees with the SDK on a successful first attempt.
McpAgreesOnSuccess ==
    \A i \in LibCalls("request") :
        (calls[i].sdk.attempts = 1 /\ calls[i].sdk.kind = "Success")
            => calls[i].mcp = calls[i].sdk

=============================================================================
